---- MODULE Spec2Model ----
(***************************************************************************)
(* Booking API of src/main.py: get_availability and create_booking over    *)
(* the "booking" collection of a document store.                           *)
(*                                                                         *)
(* Text is modelled as a sequence of one-character strings, so that        *)
(* parsing (str.split, int), formatting (isoformat, f"{h:02d}:{m:02d}")    *)
(* and the store's string comparisons are computed, not assumed.           *)
(* A datetime is [ok, ord, min]: the proleptic Gregorian ordinal of its    *)
(* day (date.toordinal) and its minute of the day; seconds are always 0    *)
(* because every time the handlers build is time(hour, minute).            *)
(***************************************************************************)
EXTENDS Integers, Sequences, FiniteSets, Bags, TLC

\* ------------------------------------------------------------------ text

Digits == <<"0", "1", "2", "3", "4", "5", "6", "7", "8", "9">>

IsDigit(c) == \E i \in 1..10 : Digits[i] = c

DigitVal(c) == (CHOOSE i \in 1..10 : Digits[i] = c) - 1

\* Code points of the characters that occur in the model's texts.
CharCode(c) ==
    CASE c = " " -> 32
      [] c = "+" -> 43
      [] c = "-" -> 45
      [] IsDigit(c) -> 48 + DigitVal(c)
      [] c = ":" -> 58
      [] c = "T" -> 84
      [] OTHER -> 97

\* s < t as the store compares two strings: by code point, a proper
\* prefix first.
StrLess(s, t) ==
    LET n    == IF Len(s) < Len(t) THEN Len(s) ELSE Len(t)
        diff == {i \in 1..n : s[i] # t[i]}
    IN  IF diff = {} THEN Len(s) < Len(t)
        ELSE LET k == CHOOSE i \in diff : \A j \in diff : i <= j
             IN  CharCode(s[k]) < CharCode(t[k])

StrLessEq(s, t) == s = t \/ StrLess(s, t)

\* str.split(sep): the pieces between the separators, empty ones kept.
RECURSIVE Split(_, _)
Split(s, sep) ==
    IF \A i \in 1..Len(s) : s[i] # sep THEN <<s>>
    ELSE LET k == CHOOSE i \in 1..Len(s) :
                      s[i] = sep /\ \A j \in 1..(i - 1) : s[j] # sep
         IN  <<SubSeq(s, 1, k - 1)>> \o Split(SubSeq(s, k + 1, Len(s)), sep)

RECURSIVE StripLeft(_)
StripLeft(s) == IF s # <<>> /\ Head(s) = " " THEN StripLeft(Tail(s)) ELSE s

RECURSIVE StripRight(_)
StripRight(s) ==
    IF s # <<>> /\ s[Len(s)] = " " THEN StripRight(SubSeq(s, 1, Len(s) - 1)) ELSE s

RECURSIVE DigitsVal(_, _)
DigitsVal(s, acc) ==
    IF s = <<>> THEN acc ELSE DigitsVal(Tail(s), 10 * acc + DigitVal(Head(s)))

\* int(s) of Python on the characters above: surrounding blanks dropped,
\* one optional sign, then at least one digit and nothing else.
\* ok = FALSE stands for ValueError.
ParseInt(s) ==
    LET body   == StripRight(StripLeft(s))
        signed == body # <<>> /\ Head(body) \in {"+", "-"}
        digs   == IF signed THEN Tail(body) ELSE body
    IN  IF digs = <<>> \/ \E i \in 1..Len(digs) : ~IsDigit(digs[i])
        THEN [ok |-> FALSE, val |-> 0]
        ELSE [ok |-> TRUE,
              val |-> IF signed /\ Head(body) = "-"
                      THEN 0 - DigitsVal(digs, 0) ELSE DigitsVal(digs, 0)]

\* f"{n:0{w}d}" for n >= 0.
RECURSIVE Pad(_, _)
Pad(n, w) ==
    IF w <= 1 /\ n < 10 THEN <<Digits[n + 1]>>
    ELSE Pad(n \div 10, w - 1) \o <<Digits[(n % 10) + 1]>>

\* -------------------------------------------------------------- calendar

MINYEAR == 1
MAXYEAR == 9999

IsLeap(y) == y % 4 = 0 /\ (y % 100 # 0 \/ y % 400 = 0)

DaysInMonth(y, m) ==
    IF m = 2 THEN (IF IsLeap(y) THEN 29 ELSE 28)
    ELSE IF m \in {4, 6, 9, 11} THEN 30 ELSE 31

DaysBeforeYear(y) ==
    (y - 1) * 365 + ((y - 1) \div 4) - ((y - 1) \div 100) + ((y - 1) \div 400)

RECURSIVE DaysBeforeMonth(_, _)
DaysBeforeMonth(y, m) ==
    IF m <= 1 THEN 0 ELSE DaysBeforeMonth(y, m - 1) + DaysInMonth(y, m - 1)

YmdToOrd(y, m, d) == DaysBeforeYear(y) + DaysBeforeMonth(y, m) + d

MaxOrdinal == YmdToOrd(MAXYEAR, 12, 31)

OrdToYmd(n) ==
    LET y == CHOOSE c \in ((n - 1) \div 366 + 1)..((n - 1) \div 365 + 1) :
                 DaysBeforeYear(c) < n /\ n <= DaysBeforeYear(c + 1)
        r == n - DaysBeforeYear(y)
        m == CHOOSE c \in 1..12 :
                 DaysBeforeMonth(y, c) < r
                 /\ r <= DaysBeforeMonth(y, c) + DaysInMonth(y, c)
    IN  [y |-> y, m |-> m, d |-> r - DaysBeforeMonth(y, m)]

MinutesPerDay == 24 * 60

\* A datetime out of range (OverflowError), a date that does not parse.
NoDatetime == [ok |-> FALSE, ord |-> 0, min |-> 0]

\* datetime + timedelta(minutes = k), OverflowError outside
\* 0001-01-01 .. 9999-12-31.
AddMinutes(dt, k) ==
    LET total == dt.min + k
        ord   == dt.ord + IF total >= 0 THEN total \div MinutesPerDay
                          ELSE 0 - ((MinutesPerDay - 1 - total) \div MinutesPerDay)
        min   == total - (ord - dt.ord) * MinutesPerDay
    IN  IF ~dt.ok \/ ord < 1 \/ ord > MaxOrdinal THEN NoDatetime
        ELSE [ok |-> TRUE, ord |-> ord, min |-> min]

\* datetime.weekday(): Monday = 0, Sunday = 6.
weekday(dt) == (dt.ord + 6) % 7

\* datetime.isoformat(): "YYYY-MM-DDTHH:MM:SS".
isoformat(dt) ==
    LET ymd == OrdToYmd(dt.ord)
    IN  Pad(ymd.y, 4) \o <<"-">> \o Pad(ymd.m, 2) \o <<"-">> \o Pad(ymd.d, 2)
        \o <<"T">> \o Pad(dt.min \div 60, 2) \o <<":">> \o Pad(dt.min % 60, 2)
        \o <<":", "0", "0">>

\* datetime.fromisoformat on a text of that shape; ok = FALSE stands for
\* the exception it raises on any other text.
fromisoformat(s) ==
    LET num(a, b) == ParseInt(SubSeq(s, a, b))
        y  == num(1, 4)
        m  == num(6, 7)
        d  == num(9, 10)
        hh == num(12, 13)
        mm == num(15, 16)
        ss == num(18, 19)
    IN  IF Len(s) # 19 \/ s[5] # "-" \/ s[8] # "-" \/ s[11] # "T"
           \/ s[14] # ":" \/ s[17] # ":"
           \/ \E i \in {1, 2, 3, 4, 6, 7, 9, 10, 12, 13, 15, 16, 18, 19} : ~IsDigit(s[i])
        THEN NoDatetime
        ELSE IF y.val < MINYEAR \/ m.val < 1 \/ m.val > 12 \/ d.val < 1
                \/ d.val > DaysInMonth(y.val, m.val)
                \/ hh.val > 23 \/ mm.val > 59 \/ ss.val # 0
        THEN NoDatetime
        ELSE [ok |-> TRUE, ord |-> YmdToOrd(y.val, m.val, d.val),
              min |-> hh.val * 60 + mm.val]

\* ------------------------------------------------------- program constants

IST_OFFSET == 330

SLOT_MINUTES == 30

START_HOUR_IST == 9

END_HOUR_IST == 17

\* ----------------------------------------------------------------- inputs

\* Request texts, written character by character.
D_Mon == <<"2", "0", "2", "4", "-", "0", "6", "-", "1", "0">>  \* a Monday

D_Tue == <<"2", "0", "2", "4", "-", "6", "-", "1", "1">>  \* the Tuesday after it, month not zero-padded

D_Sat == <<"2", "0", "2", "4", "-", "0", "6", "-", "0", "8">>  \* a Saturday

D_Sun == <<"2", "0", "2", "4", "-", "0", "6", "-", "0", "9">>  \* a Sunday

D_Min == <<"0", "0", "0", "1", "-", "0", "1", "-", "0", "1">>  \* datetime.min's day, a Monday

D_Max == <<"9", "9", "9", "9", "-", "1", "2", "-", "3", "1">>  \* datetime.max's day, a Friday

D_NoDay == <<"2", "0", "2", "4", "-", "0", "2", "-", "3", "0">>  \* no such day

D_Short == <<"2", "0", "2", "4", "-", "0", "6">>  \* two fields only

T_0900 == <<"0", "9", ":", "0", "0">>

T_900 == <<"9", ":", "0", "0">>  \* 09:00 again, hour not zero-padded

T_0915 == <<"0", "9", ":", "1", "5">>  \* off the 30-minute grid

T_0930 == <<"0", "9", ":", "3", "0">>

T_1630 == <<"1", "6", ":", "3", "0">>  \* the last slot

T_0830 == <<"0", "8", ":", "3", "0">>  \* before opening

T_1700 == <<"1", "7", ":", "0", "0">>  \* at closing

T_2400 == <<"2", "4", ":", "0", "0">>  \* no such hour

T_NoColon == <<"0", "9", "0", "0">>  \* no separator

DateStrs == {D_Mon, D_Tue, D_Sat, D_Sun, D_Min, D_Max, D_NoDay, D_Short}

TimeStrs == {T_0900, T_900, T_0915, T_0930, T_1630, T_0830, T_1700, T_2400, T_NoColon}

\* ------------------------------------------------------------ pure helpers

\* ist_date_from_str: three integers split at "-", then datetime(y, m, d).
\* ok = FALSE stands for HTTPException(400, "Invalid date format...").
ist_date_from_str(date_str) ==
    LET parts == Split(date_str, "-")
        y == ParseInt(parts[1])
        m == ParseInt(parts[2])
        d == ParseInt(parts[3])
    IN  IF Len(parts) # 3 THEN NoDatetime
        ELSE IF ~(y.ok /\ m.ok /\ d.ok) THEN NoDatetime
        ELSE IF y.val < MINYEAR \/ y.val > MAXYEAR \/ m.val < 1 \/ m.val > 12
                \/ d.val < 1 \/ d.val > DaysInMonth(y.val, m.val)
        THEN NoDatetime
        ELSE [ok |-> TRUE, ord |-> YmdToOrd(y.val, m.val, d.val), min |-> 0]

NoTime == [ok |-> FALSE, hour |-> 0, minute |-> 0]

Time(h, m) == [ok |-> TRUE, hour |-> h, minute |-> m]

\* create_booking's time parsing: two integers split at ":", then
\* time(hour = h, minute = m). ok = FALSE stands for
\* HTTPException(400, "Invalid time format...").
parse_time(time_str) ==
    LET parts == Split(time_str, ":")
        h == ParseInt(parts[1])
        m == ParseInt(parts[2])
    IN  IF Len(parts) # 2 THEN NoTime
        ELSE IF ~(h.ok /\ m.ok) THEN NoTime
        ELSE IF h.val < 0 \/ h.val > 23 \/ m.val < 0 \/ m.val > 59 THEN NoTime
        ELSE Time(h.val, m.val)

\* datetime.combine(date, t)
combine(date_dt, t) ==
    [ok |-> date_dt.ok /\ t.ok, ord |-> date_dt.ord, min |-> t.hour * 60 + t.minute]

\* A variant of to_utc_from_ist that adds the offset.
to_utc_from_ist_Added(date_ist, t) == AddMinutes(combine(date_ist, t), IST_OFFSET)

\* Local wall-clock time to the stored instant: the offset is subtracted.
to_utc_from_ist(date_ist, t) == AddMinutes(combine(date_ist, t), 0 - IST_OFFSET)

\* datetime < datetime
DtLess(a, b) == a.ord < b.ord \/ (a.ord = b.ord /\ a.min < b.min)

overlaps(a_start, a_end, b_start, b_end) ==
    DtLess(a_start, b_end) /\ DtLess(b_start, a_end)

\* f"{hour:02d}:{minute:02d}"
FormatHHMM(h, m) == Pad(h, 2) \o <<":">> \o Pad(m, 2)

\* A variant of IsWeekend that takes Saturday for a working day.
IsWeekend_SundayOnly(date_dt) == weekday(date_dt) > 5

\* The weekday test of both handlers: Saturday = 5, Sunday = 6.
IsWeekend(date_dt) == weekday(date_dt) >= 5

\* A variant of InBusinessHours that admits the closing hour.
InBusinessHours_Inclusive(t_obj) ==
    START_HOUR_IST <= t_obj.hour /\ t_obj.hour <= END_HOUR_IST

\* The business-hours test of create_booking.
InBusinessHours(t_obj) == START_HOUR_IST <= t_obj.hour /\ t_obj.hour < END_HOUR_IST

\* get_availability's slot loop: from 09:00 in steps of SLOT_MINUTES until
\* the hour reaches END_HOUR_IST.
RECURSIVE SlotLoop(_, _, _)
SlotLoop(date_dt, current, all_slots_ist) ==
    IF current.hour >= END_HOUR_IST
       \/ (current.hour = END_HOUR_IST /\ current.minute > 0)
    THEN [ok |-> TRUE, slots |-> all_slots_ist]
    ELSE LET dt == AddMinutes(combine(date_dt, current), SLOT_MINUTES)
         IN  IF ~dt.ok THEN [ok |-> FALSE, slots |-> <<>>]
             ELSE SlotLoop(date_dt, Time(dt.min \div 60, dt.min % 60),
                           Append(all_slots_ist,
                                  FormatHHMM(current.hour, current.minute)))

AllSlots(date_dt) == SlotLoop(date_dt, Time(START_HOUR_IST, 0), <<>>)

\* -------------------------------------------------------------- responses

NoText == <<>>

\* What a request answers: the handler that answers (op), the HTTP status
\* (code), the detail of an HTTPException, and the fields of
\* AvailabilityResponse (date, slots) or BookingResponse (status, date,
\* time; its timezone is always "IST" and is left out).
Response(op, code, detail, status, date, time, slots) ==
    [op |-> op, code |-> code, detail |-> detail, status |-> status,
     date |-> date, time |-> time, slots |-> slots]

NoResponse == Response("none", 0, "", "", NoText, NoText, <<>>)

AvailabilityResponse(date, slots) ==
    Response("availability", 200, "", "", date, NoText, slots)

BookingResponse(status, date, time) ==
    Response("book", 200, "", status, date, time, <<>>)

InvalidDate == "Invalid date format. Use YYYY-MM-DD"

WeekdaysOnly == "Bookings allowed Monday to Friday only"

InvalidTime == "Invalid time format. Use HH:MM 24h"

OutOfHours == "Time must be between 09:00 and 17:00 IST"

AlreadyBooked == "This time slot has already been booked. Please choose another."

\* An exception no handler catches: the framework answers 500.
ServerError == "Internal Server Error"

HTTPException(op, status_code, detail) ==
    Response(op, status_code, detail, "", NoText, NoText, <<>>)

\* ------------------------------------------------------------ the store

\* A stored booking. name, email, phone and notes are copied from the
\* request unread and are left out.
BookingDoc(date, time, start_utc_iso, end_utc_iso) ==
    [date_ist |-> date, start_time_ist |-> time,
     start_utc_iso |-> start_utc_iso, end_utc_iso |-> end_utc_iso]

\* booking_doc of create_booking, from the request and its validation v.
booking_doc(date, time, v) ==
    BookingDoc(date, time, v.start_utc_iso, v.end_utc_iso)

\* A variant of ConflictFilter that misses a document starting at the same
\* instant.
ConflictFilter_StrictStart(doc, start_utc_iso, end_utc_iso) ==
    /\ StrLess(doc.start_utc_iso, start_utc_iso)
    /\ StrLess(start_utc_iso, doc.end_utc_iso)

\* A variant of ConflictFilter that compares the bounds inclusively.
ConflictFilter_Closed(doc, start_utc_iso, end_utc_iso) ==
    /\ StrLessEq(doc.start_utc_iso, end_utc_iso)
    /\ StrLessEq(start_utc_iso, doc.end_utc_iso)

\* The filter of create_booking's find_one:
\* start_utc_iso < end_utc.isoformat() and end_utc_iso > start_utc.isoformat().
ConflictFilter(doc, start_utc_iso, end_utc_iso) ==
    /\ StrLess(doc.start_utc_iso, end_utc_iso)
    /\ StrLess(start_utc_iso, doc.end_utc_iso)

\* col.find_one(filter) is truthy iff some document matches.
find_one(st, start_utc_iso, end_utc_iso) ==
    \E doc \in BagToSet(st) : ConflictFilter(doc, start_utc_iso, end_utc_iso)

\* `conflict` of create_booking for a request whose validation is v.
conflict(st, v) == find_one(st, v.start_utc_iso, v.end_utc_iso)

\* The filter of get_availability's find:
\* day_start_utc.isoformat() <= start_utc_iso < day_end_utc.isoformat().
DayFilter(doc, day_start_iso, day_end_iso) ==
    /\ StrLessEq(day_start_iso, doc.start_utc_iso)
    /\ StrLess(doc.start_utc_iso, day_end_iso)

\* A variant of find that returns every document, whatever the window.
find_Unfiltered(st, day_start_iso, day_end_iso) == BagToSet(st)

find(st, day_start_iso, day_end_iso) ==
    {doc \in BagToSet(st) : DayFilter(doc, day_start_iso, day_end_iso)}

\* create_document inserts one document; documents differ by their
\* generated _id only, so the collection is a bag.
create_document(st, doc) == st (+) SetToBag({doc})

\* ----------------------------------------------------- get_availability

\* A variant of TakenOf that formats the stored instant without adding
\* the offset.
TakenOf_NoOffset(doc) ==
    LET s == fromisoformat(doc.start_utc_iso)
        e == fromisoformat(doc.end_utc_iso)
    IN  IF s.ok /\ e.ok
        THEN [ok |-> TRUE, slot |-> FormatHHMM(s.min \div 60, s.min % 60)]
        ELSE [ok |-> FALSE, slot |-> NoText]

\* The body of the loop over the documents found: the slot text marked as
\* taken, ok = FALSE when the try block raises and the document is skipped.
TakenOf(doc) ==
    LET s == fromisoformat(doc.start_utc_iso)
        e == fromisoformat(doc.end_utc_iso)
        ist_start == AddMinutes(s, IST_OFFSET)
    IN  IF s.ok /\ e.ok /\ ist_start.ok
        THEN [ok |-> TRUE,
              slot |-> FormatHHMM(ist_start.min \div 60, ist_start.min % 60)]
        ELSE [ok |-> FALSE, slot |-> NoText]

Available(all_slots_ist, taken) ==
    SelectSeq(all_slots_ist, LAMBDA slot : slot \notin taken)

\* get_availability before it reads the store (lines 121-144): the
\* response when it ends there, else NoResponse with the slots generated and
\* the bounds of the day's window as the find compares them.
DayPlan(date) ==
    LET date_dt  == ist_date_from_str(date)
        all      == AllSlots(date_dt)
        day_start_utc == to_utc_from_ist(date_dt, Time(0, 0))
        next_day == AddMinutes(date_dt, MinutesPerDay)
        day_end_utc == to_utc_from_ist(next_day, Time(0, 0))
        ends(resp) == [resp |-> resp, all_slots_ist |-> <<>>,
                       day_start_iso |-> NoText, day_end_iso |-> NoText]
    IN  IF ~date_dt.ok
        THEN ends(HTTPException("availability", 400, InvalidDate))
        ELSE IF IsWeekend(date_dt)
        THEN ends(AvailabilityResponse(date, <<>>))
        ELSE IF ~all.ok \/ ~day_start_utc.ok \/ ~next_day.ok \/ ~day_end_utc.ok
        THEN ends(HTTPException("availability", 500, ServerError))
        ELSE [resp |-> NoResponse, all_slots_ist |-> all.slots,
              day_start_iso |-> isoformat(day_start_utc),
              day_end_iso |-> isoformat(day_end_utc)]

\* ------------------------------------------------------- create_booking

\* A variant of Validate that parses the time before it tests the weekday.
Validate_TimeFirst(date, time) ==
    LET date_dt   == ist_date_from_str(date)
        t_obj     == parse_time(time)
        start_utc == to_utc_from_ist(date_dt, t_obj)
        end_utc   == AddMinutes(start_utc, SLOT_MINUTES)
        fail(code, detail) ==
            [code |-> code, detail |-> detail,
             start_utc_iso |-> NoText, end_utc_iso |-> NoText]
    IN  IF ~date_dt.ok THEN fail(400, InvalidDate)
        ELSE IF ~t_obj.ok THEN fail(400, InvalidTime)
        ELSE IF IsWeekend(date_dt) THEN fail(400, WeekdaysOnly)
        ELSE IF ~InBusinessHours(t_obj) THEN fail(400, OutOfHours)
        ELSE IF ~start_utc.ok \/ ~end_utc.ok THEN fail(500, ServerError)
        ELSE [code |-> 200, detail |-> "",
              start_utc_iso |-> isoformat(start_utc),
              end_utc_iso |-> isoformat(end_utc)]

\* A variant of Validate whose interval lasts two slots.
Validate_TwoSlots(date, time) ==
    LET date_dt   == ist_date_from_str(date)
        t_obj     == parse_time(time)
        start_utc == to_utc_from_ist(date_dt, t_obj)
        end_utc   == AddMinutes(start_utc, 2 * SLOT_MINUTES)
        fail(code, detail) ==
            [code |-> code, detail |-> detail,
             start_utc_iso |-> NoText, end_utc_iso |-> NoText]
    IN  IF ~date_dt.ok THEN fail(400, InvalidDate)
        ELSE IF IsWeekend(date_dt) THEN fail(400, WeekdaysOnly)
        ELSE IF ~t_obj.ok THEN fail(400, InvalidTime)
        ELSE IF ~InBusinessHours(t_obj) THEN fail(400, OutOfHours)
        ELSE IF ~start_utc.ok \/ ~end_utc.ok THEN fail(500, ServerError)
        ELSE [code |-> 200, detail |-> "",
              start_utc_iso |-> isoformat(start_utc),
              end_utc_iso |-> isoformat(end_utc)]

\* create_booking up to the conflict check: code 200 with the bounds of the
\* interval as they are stored when every validation passes, else the error
\* raised.
Validate(date, time) ==
    LET date_dt   == ist_date_from_str(date)
        t_obj     == parse_time(time)
        start_utc == to_utc_from_ist(date_dt, t_obj)
        end_utc   == AddMinutes(start_utc, SLOT_MINUTES)
        fail(code, detail) ==
            [code |-> code, detail |-> detail,
             start_utc_iso |-> NoText, end_utc_iso |-> NoText]
    IN  IF ~date_dt.ok THEN fail(400, InvalidDate)
        ELSE IF IsWeekend(date_dt) THEN fail(400, WeekdaysOnly)
        ELSE IF ~t_obj.ok THEN fail(400, InvalidTime)
        ELSE IF ~InBusinessHours(t_obj) THEN fail(400, OutOfHours)
        ELSE IF ~start_utc.ok \/ ~end_utc.ok THEN fail(500, ServerError)
        ELSE [code |-> 200, detail |-> "",
              start_utc_iso |-> isoformat(start_utc),
              end_utc_iso |-> isoformat(end_utc)]

\* ----------------------------------------------------------------- tables

\* The validations of every request text, computed once.
Validated == [d \in DateStrs, t \in TimeStrs |-> Validate(d, t)]

\* The store-independent part of every availability request, computed once.
DayPlans == [d \in DateStrs |-> DayPlan(d)]

\* The documents create_booking stores for a request whose validation is v:
\* none when the validation fails.
DocsOf(date, time, v) ==
    IF v.code = 200 THEN {booking_doc(date, time, v)} ELSE {}

\* Every document create_booking can store, and the loop body on each,
\* computed once.
AllDocs == UNION {DocsOf(p[1], p[2], Validated[p]) : p \in DateStrs \X TimeStrs}

TakenTable == [doc \in AllDocs |-> TakenOf(doc)]

\* The set `taken` after the loop over the documents found.
Taken(existing) ==
    {t.slot : t \in {u \in {TakenTable[doc] : doc \in existing} : u.ok}}

\* get_availability from the find on (lines 146-161), unless plan has
\* ended the request.
Lookup(date, st, plan) ==
    IF plan.resp # NoResponse THEN [resp |-> plan.resp, io |-> "none"]
    ELSE [resp |-> AvailabilityResponse(date,
                      Available(plan.all_slots_ist,
                          Taken(find(st, plan.day_start_iso, plan.day_end_iso)))),
          io |-> "find"]

\* get_availability(date) on the collection st: the response, and the
\* store operation the request performs ("none" when it ends before the find).
get_availability(date, st) == Lookup(date, st, DayPlans[date])

\* ----------------------------------------------------------------- state

\* The threads of the server's pool that run the handlers.
Workers == {"w1", "w2"}

\* The largest number of stored bookings explored.
MaxStore == 2

VARIABLES
    store,    \* the "booking" collection: a bag of documents
    pc,       \* pc[w]: where worker w is inside create_booking
    req,      \* req[w]: the payload worker w is handling
    out,      \* the response sent by the latest step, NoResponse if none
    io,       \* the store operation performed by the latest step
    prev      \* the latest booking request that passed validation and was answered

vars == <<store, pc, req, out, io, prev>>

NoPayload == [date |-> NoText, time |-> NoText]

NoPrev == [date |-> NoText, time |-> NoText, code |-> 0]

Init ==
    /\ store = EmptyBag
    /\ pc = [w \in Workers |-> "idle"]
    /\ req = [w \in Workers |-> NoPayload]
    /\ out = NoResponse
    /\ io = "none"
    /\ prev = NoPrev

\* create_booking from the request to the point before find_one (lines
\* 165-183): local computation only.
Received(w, date, time, v) ==
    /\ pc[w] = "idle"
    /\ IF v.code = 200
       THEN /\ pc' = [pc EXCEPT ![w] = "find_one"]
            /\ req' = [req EXCEPT ![w] = [date |-> date, time |-> time]]
            /\ out' = NoResponse
       ELSE /\ out' = HTTPException("book", v.code, v.detail)
            /\ UNCHANGED <<pc, req>>
    /\ io' = "none"
    /\ UNCHANGED store

Receive(w, date, time) == Received(w, date, time, Validated[date, time])

\* A variant of FindOne that stores the booking before it looks for a
\* conflict.
FindOne_WriteFirst(w) ==
    /\ pc[w] = "find_one"
    /\ IF conflict(store, Validated[req[w].date, req[w].time])
       THEN /\ out' = HTTPException("book", 409, AlreadyBooked)
            /\ pc' = [pc EXCEPT ![w] = "idle"]
            /\ req' = [req EXCEPT ![w] = NoPayload]
            /\ store' = create_document(store,
                            booking_doc(req[w].date, req[w].time,
                                        Validated[req[w].date, req[w].time]))
       ELSE /\ out' = NoResponse
            /\ pc' = [pc EXCEPT ![w] = "create_document"]
            /\ UNCHANGED <<req, store>>
    /\ io' = "find_one"

\* The conflict check (lines 186-197).
FindOne(w) ==
    /\ pc[w] = "find_one"
    /\ IF conflict(store, Validated[req[w].date, req[w].time])
       THEN /\ out' = HTTPException("book", 409, AlreadyBooked)
            /\ pc' = [pc EXCEPT ![w] = "idle"]
            /\ req' = [req EXCEPT ![w] = NoPayload]
       ELSE /\ out' = NoResponse
            /\ pc' = [pc EXCEPT ![w] = "create_document"]
            /\ UNCHANGED req
    /\ io' = "find_one"
    /\ UNCHANGED store

\* A variant of CreateDocument whose insert is refused when a stored
\* booking overlaps, as under a uniqueness constraint.
CreateDocument_Rechecked(w) ==
    /\ pc[w] = "create_document"
    /\ BagCardinality(store) < MaxStore
    /\ IF conflict(store, Validated[req[w].date, req[w].time])
       THEN /\ out' = HTTPException("book", 409, AlreadyBooked)
            /\ UNCHANGED store
       ELSE /\ out' = BookingResponse("confirmed", req[w].date, req[w].time)
            /\ store' = create_document(store,
                            booking_doc(req[w].date, req[w].time,
                                        Validated[req[w].date, req[w].time]))
    /\ io' = "insert_one"
    /\ pc' = [pc EXCEPT ![w] = "idle"]
    /\ req' = [req EXCEPT ![w] = NoPayload]

\* A variant of CreateDocument whose insert replaces what is stored.
CreateDocument_Overwrites(w) ==
    /\ pc[w] = "create_document"
    /\ BagCardinality(store) < MaxStore
    /\ store' = SetToBag({booking_doc(req[w].date, req[w].time,
                                      Validated[req[w].date, req[w].time])})
    /\ out' = BookingResponse("confirmed", req[w].date, req[w].time)
    /\ io' = "insert_one"
    /\ pc' = [pc EXCEPT ![w] = "idle"]
    /\ req' = [req EXCEPT ![w] = NoPayload]

\* The insert and the confirmation (lines 199-214).
CreateDocument(w) ==
    /\ pc[w] = "create_document"
    /\ BagCardinality(store) < MaxStore
    /\ store' = create_document(store,
                    booking_doc(req[w].date, req[w].time,
                                Validated[req[w].date, req[w].time]))
    /\ out' = BookingResponse("confirmed", req[w].date, req[w].time)
    /\ io' = "insert_one"
    /\ pc' = [pc EXCEPT ![w] = "idle"]
    /\ req' = [req EXCEPT ![w] = NoPayload]

\* get_availability, whose only store operation is one find.
Answered(r) ==
    /\ out' = r.resp
    /\ io' = r.io
    /\ UNCHANGED <<store, pc, req>>

GetAvailability(date) == Answered(get_availability(date, store))

\* The booking requests that the workers handle concurrently: every time
\* text on one weekday and on the dates that are rejected.
RaceInputs == {D_Mon, D_Sat, D_Sun, D_NoDay, D_Short} \X TimeStrs

\* Requests are handled concurrently by the workers.
Next ==
    \/ \E w \in Workers, p \in RaceInputs :
          Receive(w, p[1], p[2]) /\ UNCHANGED prev
    \/ \E w \in Workers : FindOne(w) /\ UNCHANGED prev
    \/ \E w \in Workers : CreateDocument(w) /\ UNCHANGED prev
    \/ \E date \in DateStrs : GetAvailability(date) /\ UNCHANGED prev

Spec == Init /\ [][Next]_vars

\* The booking request that has just passed validation and been answered
\* (confirmed or conflict) becomes the previous one.
Remember(w) ==
    prev' = IF out'.op = "book"
            THEN [date |-> req[w].date, time |-> req[w].time, code |-> out'.code]
            ELSE prev

\* The booking requests handled one after the other: every time text on
\* two weekdays and on the dates that are rejected, and the first and the
\* last day of the calendar at opening time and before it.
SeqInputs ==
    ({D_Mon, D_Tue, D_Sat, D_Sun, D_NoDay, D_Short} \X TimeStrs)
    \cup ({D_Min, D_Max} \X {T_0900, T_0830})

\* Requests are handled one after the other, by one worker.
SeqNext ==
    \/ \E p \in SeqInputs :
          Receive("w1", p[1], p[2]) /\ UNCHANGED prev
    \/ FindOne("w1") /\ Remember("w1")
    \/ CreateDocument("w1") /\ Remember("w1")
    \/ \E date \in DateStrs : GetAvailability(date) /\ UNCHANGED prev

SeqSpec == Init /\ [][SeqNext]_vars

\* ------------------------------------------------- the store unavailable

\* A store operation that cannot reach the store raises; create_booking
\* and get_availability catch nothing around their store operations, so
\* the exception ends the request and the framework answers 500.
StoreUnavailable(op) == HTTPException(op, 500, ServerError)

\* A variant of FindOneFails that takes the failed lookup for "no conflict".
FindOneFails_NoConflict(w) ==
    /\ pc[w] = "find_one"
    /\ out' = NoResponse
    /\ io' = "unavailable"
    /\ pc' = [pc EXCEPT ![w] = "create_document"]
    /\ UNCHANGED <<req, store>>

\* The conflict check (lines 186-194) when the store is unavailable.
FindOneFails(w) ==
    /\ pc[w] = "find_one"
    /\ out' = StoreUnavailable("book")
    /\ io' = "unavailable"
    /\ pc' = [pc EXCEPT ![w] = "idle"]
    /\ req' = [req EXCEPT ![w] = NoPayload]
    /\ UNCHANGED store

\* The insert (line 212) when the store is unavailable: nothing is written
\* and line 214 is not reached.
CreateDocumentFails(w) ==
    /\ pc[w] = "create_document"
    /\ out' = StoreUnavailable("book")
    /\ io' = "unavailable"
    /\ pc' = [pc EXCEPT ![w] = "idle"]
    /\ req' = [req EXCEPT ![w] = NoPayload]
    /\ UNCHANGED store

\* get_availability when its find (lines 146-148) cannot reach the store.
FindFails(plan) ==
    /\ plan.resp = NoResponse
    /\ out' = StoreUnavailable("availability")
    /\ io' = "unavailable"
    /\ UNCHANGED <<store, pc, req>>

GetAvailabilityFails(date) == FindFails(DayPlans[date])

\* The concurrent workers, with a store that may be unavailable at any
\* store operation.
FaultNext ==
    \/ Next
    \/ \E w \in Workers : FindOneFails(w) /\ UNCHANGED prev
    \/ \E w \in Workers : CreateDocumentFails(w) /\ UNCHANGED prev
    \/ \E date \in DateStrs : GetAvailabilityFails(date) /\ UNCHANGED prev

FaultSpec == Init /\ [][FaultNext]_vars

\* ------------------------------------------------------------ properties

\* What the request texts mean, written out independently of the parsers:
\* the ordinal of the day (date.toordinal()), 0 for a text that is no date,
\* and the minute of the day, -1 for a text that is no time.
OrdinalOf(date) ==
    CASE date = D_Mon -> 739047
      [] date = D_Tue -> 739048
      [] date = D_Sat -> 739045
      [] date = D_Sun -> 739046
      [] date = D_Min -> 1
      [] date = D_Max -> 3652059
      [] OTHER -> 0

MinuteOf(time) ==
    CASE time \in {T_0900, T_900} -> 9 * 60
      [] time = T_0915 -> 9 * 60 + 15
      [] time = T_0930 -> 9 * 60 + 30
      [] time = T_1630 -> 16 * 60 + 30
      [] time = T_0830 -> 8 * 60 + 30
      [] time = T_1700 -> 17 * 60
      [] OTHER -> 0 - 1

WeekdayDates == {D_Mon, D_Tue, D_Min, D_Max}

WeekendDates == {D_Sat, D_Sun}

ParsableTimes == {t \in TimeStrs : MinuteOf(t) >= 0}

\* The sequential booking requests on a weekday with a parsable time.
WeekdayParsable ==
    {p \in SeqInputs : p[1] \in WeekdayDates /\ p[2] \in ParsableTimes}

\* The minute of the day that a slot text "HH:MM" names.
MinuteOfSlot(slot) ==
    (DigitVal(slot[1]) * 10 + DigitVal(slot[2])) * 60
    + DigitVal(slot[4]) * 10 + DigitVal(slot[5])

\* The 16 slots 09:00, 09:30, ..., 16:30.
FullGrid ==
    <<<<"0", "9", ":", "0", "0">>,
      <<"0", "9", ":", "3", "0">>,
      <<"1", "0", ":", "0", "0">>,
      <<"1", "0", ":", "3", "0">>,
      <<"1", "1", ":", "0", "0">>,
      <<"1", "1", ":", "3", "0">>,
      <<"1", "2", ":", "0", "0">>,
      <<"1", "2", ":", "3", "0">>,
      <<"1", "3", ":", "0", "0">>,
      <<"1", "3", ":", "3", "0">>,
      <<"1", "4", ":", "0", "0">>,
      <<"1", "4", ":", "3", "0">>,
      <<"1", "5", ":", "0", "0">>,
      <<"1", "5", ":", "3", "0">>,
      <<"1", "6", ":", "0", "0">>,
      <<"1", "6", ":", "3", "0">>>>

\* The stored interval of every document, as instants, computed once.
Instants ==
    [doc \in AllDocs |-> [start |-> fromisoformat(doc.start_utc_iso),
                          end   |-> fromisoformat(doc.end_utc_iso)]]

StartOf(doc) == Instants[doc].start

EndOf(doc) == Instants[doc].end

\* The number of stored bookings for the date and time that r asks for.
RecordsAt(st, r) ==
    LET same == {doc \in BagToSet(st) :
                     /\ OrdinalOf(doc.date_ist) = OrdinalOf(r.date)
                     /\ MinuteOf(doc.start_time_ist) = MinuteOf(r.time)}
    IN  BagCardinality([doc \in same |-> CopiesIn(doc, st)])

\* Some stored booking is less than 30 minutes away from the one r asks for.
StoredOverlap(st, r) ==
    \E doc \in BagToSet(st) :
        /\ OrdinalOf(doc.date_ist) = OrdinalOf(r.date)
        /\ MinuteOf(doc.start_time_ist) - MinuteOf(r.time) < 30
        /\ MinuteOf(r.time) - MinuteOf(doc.start_time_ist) < 30

\* No stored booking is on the day that the text date names.
NoBookingOn(date, st) ==
    \A doc \in BagToSet(st) : OrdinalOf(doc.date_ist) # OrdinalOf(date)

\* C1: in every reachable state no two distinct stored bookings have
\* overlapping intervals [start_utc, end_utc). Two concurrent requests for
\* one slot break it.
C1_NoOverlappingBookings ==
    \A a, b \in BagToSet(store) :
        (a # b \/ CopiesIn(a, store) > 1)
            => ~overlaps(StartOf(a), EndOf(a), StartOf(b), EndOf(b))

\* C2: nothing lies between the conflict check and the insert. A worker at
\* find_one goes on to the insert whenever no stored booking overlaps,
\* whatever the other worker is doing, and a worker that has passed the
\* check inserts its booking and answers "confirmed" whatever the store
\* holds by then.
C2_CheckThenInsertUnguarded ==
    [][\A w \in Workers :
          /\ (pc[w] = "find_one" /\ pc'[w] # "find_one" /\ ~StoredOverlap(store, req[w]))
                => pc'[w] = "create_document"
          /\ (pc[w] = "create_document" /\ pc'[w] = "idle")
                => /\ out' = BookingResponse("confirmed", req[w].date, req[w].time)
                   /\ BagCardinality(store') = BagCardinality(store) + 1
                   /\ RecordsAt(store', req[w]) = RecordsAt(store, req[w]) + 1]_vars

\* C2, reached: the second of two requests for Monday 09:00 is confirmed
\* and the store holds two bookings for that interval.
C2_DoubleBooked ==
    /\ out = BookingResponse("confirmed", D_Mon, T_0900)
    /\ \E doc \in BagToSet(store) :
          /\ doc.date_ist = D_Mon
          /\ doc.start_time_ist = T_0900
          /\ CopiesIn(doc, store) = 2

\* The step that answers a booking request for the date and time of the
\* previous booking request, both having passed validation.
SecondAnswered ==
    /\ pc["w1"] # "idle"
    /\ pc'["w1"] = "idle"
    /\ prev # NoPrev
    /\ OrdinalOf(prev.date) = OrdinalOf(req["w1"].date)
    /\ MinuteOf(prev.time) = MinuteOf(req["w1"].time)

\* C3 as claimed: of two valid requests for one date and time handled one
\* after the other, the first is confirmed, the second is rejected with 409
\* and exactly one booking for that date and time is stored afterwards,
\* whatever ran before them.
C3_FirstConfirmedSecondRejected ==
    [][SecondAnswered
          => /\ prev.code = 200
             /\ out' = HTTPException("book", 409, AlreadyBooked)
             /\ RecordsAt(store', req["w1"]) = 1]_vars

\* C3 as amended: when the first of the two was confirmed, the second is
\* rejected with 409 and exactly one booking for that date and time is
\* stored afterwards.
C3_SecondRejectedAfterConfirmed ==
    [][(SecondAnswered /\ prev.code = 200)
          => /\ out' = HTTPException("book", 409, AlreadyBooked)
             /\ RecordsAt(store', req["w1"]) = 1]_vars

\* C3, reached: Monday "9:00" was confirmed, then Monday "09:00" has been
\* rejected, and one booking is stored.
C3_SecondRejected ==
    /\ out = HTTPException("book", 409, AlreadyBooked)
    /\ prev = [date |-> D_Mon, time |-> T_0900, code |-> 409]
    /\ BagCardinality(store) = 1
    /\ \E doc \in BagToSet(store) :
          doc.date_ist = D_Mon /\ doc.start_time_ist = T_900

\* C4: a slot list returned for a date never contains the time of a booking
\* stored for that date, neither as the text requested nor as the time of
\* day it names.
C4_BookedSlotNotListed ==
    (out.op = "availability" /\ out.code = 200)
        => \A doc \in BagToSet(store) :
               OrdinalOf(doc.date_ist) = OrdinalOf(out.date)
                   => \A i \in 1..Len(out.slots) :
                          /\ out.slots[i] # doc.start_time_ist
                          /\ MinuteOfSlot(out.slots[i]) # MinuteOf(doc.start_time_ist)

\* C4, reached: slots are listed for Tuesday while a Tuesday booking made
\* as "9:00" is stored.
C4_ListedAfterBooking ==
    /\ out.op = "availability" /\ out.code = 200
    /\ OrdinalOf(out.date) = OrdinalOf(D_Tue)
    /\ Len(out.slots) > 0
    /\ \E doc \in BagToSet(store) :
          doc.date_ist = D_Tue /\ doc.start_time_ist = T_900

\* C5: for every weekday date with no booking stored on it, get_availability
\* returns exactly the 16 slots 09:00 .. 16:30 in ascending order. On the
\* first and on the last day of the calendar it answers 500 instead.
C5_FullGridOnFreeWeekday ==
    [][\A d \in WeekdayDates :
          (GetAvailability(d) /\ NoBookingOn(d, store))
              => out' = AvailabilityResponse(d, FullGrid)]_vars

\* The same on the weekdays whose day window lies inside the calendar.
FullGridInsideCalendar ==
    [][\A d \in {D_Mon, D_Tue} :
          (GetAvailability(d) /\ NoBookingOn(d, store))
              => out' = AvailabilityResponse(d, FullGrid) /\ io' = "find"]_vars

\* C6: on a Saturday or Sunday get_availability returns the empty slot
\* list, whatever is stored, and performs no store operation.
C6_WeekendHasNoSlots ==
    [][\A d \in WeekendDates :
          GetAvailability(d)
              => /\ out' = AvailabilityResponse(d, <<>>)
                 /\ io' = "none"
                 /\ store' = store]_vars

\* C6, reached: the empty list is returned for Sunday while bookings are
\* stored.
C6_WeekendAnswered ==
    /\ out = AvailabilityResponse(D_Sun, <<>>)
    /\ io = "none"
    /\ store # EmptyBag

\* C7: a booking request for a Saturday or Sunday is rejected with the
\* weekday error (400) for every time text, parsable or not, in hours or
\* not, without any store operation.
C7_WeekendRejectedFirst ==
    [][\A w \in Workers, d \in WeekendDates, t \in TimeStrs :
          Receive(w, d, t)
              => /\ out' = HTTPException("book", 400, WeekdaysOnly)
                 /\ io' = "none"
                 /\ store' = store
                 /\ pc' = pc]_vars

\* C7, reached: the weekday error has been answered with no store operation.
C7_WeekendRejected ==
    /\ out = HTTPException("book", 400, WeekdaysOnly)
    /\ io = "none"

\* C8: on a weekday a parsable time passes the business-hours check iff
\* 09:00 <= time < 17:00; every other time is rejected with the
\* business-hours error (400) and no store operation.
C8_BusinessHours ==
    [][\A p \in WeekdayParsable :
          Receive("w1", p[1], p[2])
              => /\ IF 9 * 60 <= MinuteOf(p[2]) /\ MinuteOf(p[2]) < 17 * 60
                    THEN pc'["w1"] = "find_one" /\ out' = NoResponse
                    ELSE pc'["w1"] = "idle"
                         /\ out' = HTTPException("book", 400, OutOfHours)
                 /\ io' = "none"
                 /\ store' = store]_vars

\* C8, reached: the business-hours error has been answered with no store
\* operation.
C8_OutOfHoursRejected ==
    /\ out = HTTPException("book", 400, OutOfHours)
    /\ io = "none"

\* C9: the stored bookings change only in the step that answers
\* "confirmed", so a request that ends in an error has changed nothing.
C9_ErrorsWriteNothing ==
    [][store' # store => out'.op = "book" /\ out'.code = 200 /\ out'.status = "confirmed"]_vars

\* C9, reached: a conflict has been answered while a booking is stored.
C9_ConflictAnswered ==
    /\ out = HTTPException("book", 409, AlreadyBooked)
    /\ io = "find_one"
    /\ store # EmptyBag

\* C10: the stored start of every booking, moved by +5:30, is the day and
\* the time of day that the request's texts name.
C10_RoundTrip ==
    \A doc \in BagToSet(store) :
        LET local == AddMinutes(StartOf(doc), 5 * 60 + 30)
        IN  /\ local.ok
            /\ local.ord = OrdinalOf(doc.date_ist)
            /\ local.min = MinuteOf(doc.start_time_ist)

\* C10, reached: bookings requested as "2024-6-11" "9:00" and on the first
\* day of the calendar are stored.
C10_Stored ==
    /\ \E doc \in BagToSet(store) :
          doc.date_ist = D_Tue /\ doc.start_time_ist = T_900
    /\ \E doc \in BagToSet(store) : doc.date_ist = D_Min

\* a <= b on instants given as day and minute of the day.
NotAfter(a, b) == a.ord < b.ord \/ (a.ord = b.ord /\ a.min <= b.min)

\* Local midnight of the day with ordinal n, as an instant: 18:30 of the
\* day before.
LocalMidnight(n) == [ok |-> TRUE, ord |-> n - 1, min |-> 24 * 60 - (5 * 60 + 30)]

\* The minutes of the day at which the 16 slots start.
SlotBoundaries == {MinuteOfSlot(FullGrid[i]) : i \in 1..Len(FullGrid)}

\* C11: in every reachable state the local start time of every stored
\* booking is one of the 16 slot boundaries 09:00, 09:30, ..., 16:30. A
\* booking made for 09:15 breaks it.
C11_StartOnSlotBoundary ==
    \A doc \in BagToSet(store) :
        /\ MinuteOf(doc.start_time_ist) \in SlotBoundaries
        /\ AddMinutes(StartOf(doc), 5 * 60 + 30).min \in SlotBoundaries

\* C12: every slot returned for a weekday date starts at least 30 minutes
\* away from every booking stored for that date, so that booking it next
\* meets no conflict. A booking made for 09:15 leaves 09:00 and 09:30 listed.
C12_ListedSlotsAreFree ==
    (out.op = "availability" /\ out.code = 200)
        => \A i \in 1..Len(out.slots) :
               \A doc \in BagToSet(store) :
                   OrdinalOf(doc.date_ist) = OrdinalOf(out.date)
                       => \/ MinuteOf(doc.start_time_ist) - MinuteOfSlot(out.slots[i]) >= 30
                          \/ MinuteOfSlot(out.slots[i]) - MinuteOf(doc.start_time_ist) >= 30

\* C13: a store operation of create_booking that finds the store
\* unavailable ends the request with a server error (500) and writes
\* nothing; a worker reaches the insert only after a completed conflict
\* check that found no overlap, and "confirmed" is answered only by the step
\* that has inserted the booking.
C13_UnavailableIsServerError ==
    [][\A w \in Workers :
          /\ (pc[w] \in {"find_one", "create_document"} /\ pc'[w] # pc[w]
                  /\ io' = "unavailable")
                => /\ out' = HTTPException("book", 500, ServerError)
                   /\ pc'[w] = "idle"
                   /\ store' = store
          /\ (pc[w] = "find_one" /\ pc'[w] = "create_document")
                => io' = "find_one" /\ ~StoredOverlap(store, req[w])
          /\ out'.status = "confirmed"
                => /\ io' = "insert_one"
                   /\ BagCardinality(store') = BagCardinality(store) + 1]_vars

\* C13, reached: the store was unavailable at the insert, after a completed
\* conflict check: the server error is answered and nothing is stored.
C13_InsertFailed ==
    /\ out = HTTPException("book", 500, ServerError)
    /\ io = "unavailable"
    /\ store = EmptyBag
    /\ \A w \in Workers : pc[w] = "idle"

\* The interval that the request r asks for, as instants.
RequestedStart(r) ==
    [ok |-> TRUE, ord |-> OrdinalOf(r.date), min |-> MinuteOf(r.time) - (5 * 60 + 30)]

RequestedEnd(r) ==
    [ok |-> TRUE, ord |-> OrdinalOf(r.date), min |-> MinuteOf(r.time) - (5 * 60 + 30) + 30]

\* C14: handled one at a time, a request that has passed validation is
\* rejected with the conflict error iff a stored booking starts less than 30
\* minutes away from it, which is when overlaps() holds of the two
\* intervals; otherwise it goes on to the insert.
C14_ConflictIffOverlap ==
    [][(pc["w1"] = "find_one" /\ pc'["w1"] # "find_one")
          => /\ (out' = HTTPException("book", 409, AlreadyBooked))
                    <=> StoredOverlap(store, req["w1"])
             /\ StoredOverlap(store, req["w1"])
                    <=> \E doc \in BagToSet(store) :
                            overlaps(StartOf(doc), EndOf(doc),
                                     RequestedStart(req["w1"]), RequestedEnd(req["w1"]))
             /\ ~StoredOverlap(store, req["w1"])
                    => pc'["w1"] = "create_document" /\ out' = NoResponse]_vars

\* C14, reached: Monday 09:30 is confirmed while Monday 09:00 is stored.
C14_BackToBackBooked ==
    /\ out = BookingResponse("confirmed", D_Mon, T_0930)
    /\ \E doc \in BagToSet(store) :
          doc.date_ist = D_Mon /\ doc.start_time_ist = T_0900

\* C15: the store only grows. Every step keeps every stored booking with at
\* least as many copies, get_availability leaves the store as it is, and the
\* step that answers "confirmed" adds exactly one booking, the one requested.
C15_StoreOnlyGrows ==
    [][/\ \A doc \in BagToSet(store) : CopiesIn(doc, store') >= CopiesIn(doc, store)
       /\ out'.op = "availability" => store' = store
       /\ out'.status = "confirmed"
             => /\ BagCardinality(store') = BagCardinality(store) + 1
                /\ \E doc \in BagToSet(store') :
                      /\ doc.date_ist = out'.date
                      /\ doc.start_time_ist = out'.time
                      /\ CopiesIn(doc, store') = CopiesIn(doc, store) + 1]_vars

\* C15, reached: a second booking is confirmed and the first is still stored.
C15_SecondAdded ==
    /\ out = BookingResponse("confirmed", D_Mon, T_1630)
    /\ BagCardinality(store) = 2
    /\ \E doc \in BagToSet(store) :
          doc.date_ist = D_Mon /\ doc.start_time_ist = T_0900

\* C16: bookings on different dates are independent. Every interval lies
\* inside the local day of its date when it is stored; a slot is missing from the list
\* returned for a date only if a booking stored for that very day starts at
\* it; a conflict is answered only if a booking is stored for the day
\* requested.
C16_DatesIndependent ==
    [][/\ \A doc \in BagToSet(store') :
             CopiesIn(doc, store') > CopiesIn(doc, store) =>
             /\ NotAfter(LocalMidnight(OrdinalOf(doc.date_ist)), StartOf(doc))
             /\ NotAfter(EndOf(doc), LocalMidnight(OrdinalOf(doc.date_ist) + 1))
       /\ (out'.op = "availability" /\ out'.code = 200
               /\ OrdinalOf(out'.date) \in {OrdinalOf(d) : d \in WeekdayDates})
             => \A i \in 1..Len(FullGrid) :
                    (\A j \in 1..Len(out'.slots) : out'.slots[j] # FullGrid[i])
                        => \E doc \in BagToSet(store) :
                               /\ OrdinalOf(doc.date_ist) = OrdinalOf(out'.date)
                               /\ MinuteOf(doc.start_time_ist) = MinuteOfSlot(FullGrid[i])
       /\ (pc["w1"] = "find_one" /\ out' = HTTPException("book", 409, AlreadyBooked))
             => \E doc \in BagToSet(store) :
                    OrdinalOf(doc.date_ist) = OrdinalOf(req["w1"].date)]_vars

\* C16, reached: all 16 slots are returned for Tuesday while Monday 09:00 is
\* stored.
C16_OtherDayUntouched ==
    /\ out = AvailabilityResponse(D_Tue, FullGrid)
    /\ io = "find"
    /\ \E doc \in BagToSet(store) :
          doc.date_ist = D_Mon /\ doc.start_time_ist = T_0900

\* C17: in every reachable state every stored booking ends exactly 30
\* minutes after it starts, is on a local date from Monday to Friday and
\* starts at a local hour in 9..16.
C17_StoredWellFormed ==
    \A doc \in BagToSet(store) :
        /\ StartOf(doc).ok /\ EndOf(doc).ok
        /\ EndOf(doc) = AddMinutes(StartOf(doc), 30)
        /\ OrdinalOf(doc.date_ist) > 0
        /\ (OrdinalOf(doc.date_ist) + 6) % 7 \in 0..4
        /\ MinuteOf(doc.start_time_ist) \div 60 \in 9..16
        /\ weekday(AddMinutes(StartOf(doc), 5 * 60 + 30)) \in 0..4
        /\ AddMinutes(StartOf(doc), 5 * 60 + 30).min \div 60 \in 9..16

\* C17, reached: bookings for the last slot of a Monday and for the first
\* day of the calendar are stored.
C17_Stored ==
    /\ \E doc \in BagToSet(store) :
          doc.date_ist = D_Mon /\ doc.start_time_ist = T_1630
    /\ \E doc \in BagToSet(store) : doc.date_ist = D_Min

====
